---- MODULE Spec2Model ----
(***************************************************************************)
(* A model of android_automation.py: the Gradle file locator, the          *)
(* applicationId extractor, the Clean-Architecture scaffold, the manifest  *)
(* permission editor, the dependency injector (method 1) and the top-level *)
(* flow that chains them.                                                  *)
(*                                                                         *)
(* Files are sequences of symbols.  In a Gradle file the symbols are       *)
(*   "D"   the text  dependencies {                                        *)
(*   "x"   any other non-blank text                                        *)
(*   "}"   a closing brace                                                 *)
(*   "sp"  a blank, "CR" a carriage return, "LF" a line feed               *)
(*   "depN" the body of the N-th snippet of the dependency list            *)
(*   "appid:<id>"  the text  applicationId = "<id>"                        *)
(***************************************************************************)
EXTENDS Integers, Sequences, FiniteSets, TLC

VARIABLES
    platform,        \* "posix" or "nt": os.linesep of the interpreter running the script
    gradle,          \* Gradle path -> bytes on disk, or NoFile
    unreadable,      \* Gradle paths whose open() raises (permissions)
    dirs,            \* directories below <base>/app/src/main/java (paths are sequences)
    files,           \* regular files below <base>/app/src/main/java: [path, content]
    manifest,        \* app/src/main/AndroidManifest.xml: absent, malformed, or its root's children
    pc,              \* position of the top-level script
    app_folder,      \* __main__: app_folder
    gradle_file,     \* __main__: gradle_file
    application_id,  \* __main__: application_id
    log              \* what each operation so far was given, did and printed, in order

vars == << platform, gradle, unreadable, dirs, files, manifest, pc, app_folder,
           gradle_file, application_id, log >>

\* The content of a path that names no file: no file holds this symbol.
NoFile == << "<absent>" >>
None == "None"

\* The last operation's entry of the log.
Last == log[Len(log)]

----------------------------------------------------------------------------
(* Bounds *)

MaxFileLen == 4      \* longest Gradle file, in symbols
MaxChildren == 4     \* most children of the manifest's root before the edit
MaxBlockers == 1     \* most files and directories in the way of the scaffold
MaxOps == 3          \* most scaffold operations run on one tree

----------------------------------------------------------------------------
(* Text files: open(path, "r"), readlines(), str.strip(), open(path, "w")  *)

Whitespace == {"sp", "CR", "LF"}

RECURSIVE Translate(_)
\* open(..., "r") with the default newline=None: "\r\n" and "\r" are read as "\n".
Translate(b) ==
    IF b = << >> THEN << >>
    ELSE IF Head(b) = "CR"
         THEN << "LF" >> \o Translate(IF Len(b) >= 2 /\ b[2] = "LF"
                                       THEN SubSeq(b, 3, Len(b))
                                       ELSE Tail(b))
         ELSE << Head(b) >> \o Translate(Tail(b))

RECURSIVE SplitLines(_)
\* file.readlines(): the text cut after every "\n"; the last line may have none.
SplitLines(t) ==
    IF t = << >> THEN << >>
    ELSE LET ends == {i \in 1..Len(t) : t[i] = "LF"}
             n == IF ends = {} THEN Len(t)
                  ELSE CHOOSE i \in ends : \A j \in ends : i <= j
         IN << SubSeq(t, 1, n) >> \o SplitLines(SubSeq(t, n + 1, Len(t)))

ReadLines(b) == SplitLines(Translate(b))

RECURSIVE LStrip(_)
LStrip(s) == IF s # << >> /\ Head(s) \in Whitespace THEN LStrip(Tail(s)) ELSE s

RECURSIVE RStrip(_)
RStrip(s) ==
    IF s # << >> /\ s[Len(s)] \in Whitespace THEN RStrip(SubSeq(s, 1, Len(s) - 1)) ELSE s

\* str.strip()
Strip(s) == RStrip(LStrip(s))

RECURSIVE Encode(_, _)
\* open(..., "w") with the default newline=None: "\n" is written as os.linesep.
Encode(t, plat) ==
    IF t = << >> THEN << >>
    ELSE (IF Head(t) = "LF" /\ plat = "nt" THEN << "CR", "LF" >> ELSE << Head(t) >>)
         \o Encode(Tail(t), plat)

----------------------------------------------------------------------------
(* add_dependencies_method_1 *)

NumDeps == 10

\* dependencies[i]: the snippet body and the "\n" that ends the literal.
dependencies == [i \in 1..NumDeps |-> << "dep" \o ToString(i), "LF" >>]

DepOpen == << "D" >>
BlockClose == << "}" >>

RECURSIVE AskAndWrite(_, _)
\* The prompt loop of one block: file.write(f"{dep}\n") for every accepted snippet,
\* from snippet i on.  accepted is the set of snippets answered yes or y.
AskAndWrite(i, accepted) ==
    IF i > NumDeps THEN << >>
    ELSE (IF i \in accepted THEN dependencies[i] \o << "LF" >> ELSE << >>)
         \o AskAndWrite(i + 1, accepted)

RECURSIVE RewriteFrom_firstOnly(_, _, _, _)
\* RewriteFrom with the prompt loop guarded by "no block opened yet".
RewriteFrom_firstOnly(lines, ans, k, st) ==
    IF k > Len(lines) THEN st
    ELSE LET line == lines[k]
             stripped_line == Strip(line)
         IN IF stripped_line = DepOpen /\ st.rounds = 0
            THEN RewriteFrom_firstOnly(lines, ans, k + 1,
                    [out    |-> st.out \o line \o AskAndWrite(1, ans[1]),
                     asked  |-> st.asked + NumDeps,
                     rounds |-> 1,
                     inside |-> TRUE])
            ELSE RewriteFrom_firstOnly(lines, ans, k + 1,
                    [out    |-> st.out \o line,
                     asked  |-> st.asked,
                     rounds |-> st.rounds,
                     inside |-> IF st.inside /\ stripped_line = BlockClose
                                THEN FALSE ELSE st.inside])

RECURSIVE RewriteFrom(_, _, _, _)
\* The write loop from line k on.  st.out is the text written so far, st.asked the
\* number of input() prompts made, st.rounds the number of blocks opened and
\* st.inside the flag inside_dependencies.
RewriteFrom(lines, ans, k, st) ==
    IF k > Len(lines) THEN st
    ELSE LET line == lines[k]
             stripped_line == Strip(line)
         IN IF stripped_line = DepOpen
            THEN RewriteFrom(lines, ans, k + 1,
                    [out    |-> st.out \o line \o AskAndWrite(1, ans[st.rounds + 1]),
                     asked  |-> st.asked + NumDeps,
                     rounds |-> st.rounds + 1,
                     inside |-> TRUE])
            ELSE RewriteFrom(lines, ans, k + 1,
                    [out    |-> st.out \o line,
                     asked  |-> st.asked,
                     rounds |-> st.rounds,
                     inside |-> IF st.inside /\ stripped_line = BlockClose
                                THEN FALSE ELSE st.inside])

Rewrite(lines, ans) ==
    RewriteFrom(lines, ans, 1, [out |-> << >>, asked |-> 0, rounds |-> 0, inside |-> FALSE])

\* The number of lines at which the operator is prompted.
NumBlocks(lines) == Cardinality({k \in 1..Len(lines) : Strip(lines[k]) = DepOpen})

\* The answers an operator may give to the prompts of one block, as the set of
\* snippets accepted: none, all, exactly one, all but one.
AnswerMasks ==
    {{}, 1..NumDeps} \cup {{i} : i \in 1..NumDeps} \cup {(1..NumDeps) \ {i} : i \in 1..NumDeps}

add_dependencies_method_1(build_gradle_file, ans) ==
    IF gradle[build_gradle_file] = NoFile \/ build_gradle_file \in unreadable
    THEN \* open(build_gradle_file, "r") raises; the except clause prints the error
         /\ log' = Append(log, [op |-> "add_dependencies_method_1",
                                  path |-> build_gradle_file, err |-> TRUE])
         /\ UNCHANGED gradle
    ELSE LET lines == ReadLines(gradle[build_gradle_file])
             r == Rewrite(lines, ans)
         IN /\ gradle' = [gradle EXCEPT ![build_gradle_file] = Encode(r.out, platform)]
            /\ log' = Append(log, [op |-> "add_dependencies_method_1",
                                     path |-> build_gradle_file, err |-> FALSE,
                                     before |-> gradle[build_gradle_file],
                                     lines |-> lines, ans |-> ans, written |-> r.out,
                                     asked |-> r.asked, inside |-> r.inside])

\* The answer sequences for a file: one of masks per block the file opens.
AnswersFor(path, masks) ==
    IF gradle[path] = NoFile \/ path \in unreadable THEN {<< >>}
    ELSE [1..NumBlocks(ReadLines(gradle[path])) -> masks]

----------------------------------------------------------------------------
(* find_manifest_file, add_permissions, main *)

\* permissions["basic"], ["beginner"], ["intermediate"], ["advanced"], without the
\* common prefix "android.permission."
Basic == << "INTERNET", "ACCESS_NETWORK_STATE", "ACCESS_WIFI_STATE", "READ_EXTERNAL_STORAGE" >>
Beginner == Basic \o << "CAMERA", "ACCESS_FINE_LOCATION", "BLUETOOTH" >>
Intermediate ==
    Beginner \o << "READ_SMS", "WRITE_SETTINGS", "BLUETOOTH_ADMIN", "ACCESS_COARSE_LOCATION" >>
Advanced ==
    Intermediate \o << "USE_BIOMETRIC", "INSTALL_PACKAGES", "REQUEST_INSTALL_PACKAGES" >>

permissions == [basic |-> Basic, beginner |-> Beginner,
                intermediate |-> Intermediate, advanced |-> Advanced]

\* A child of the manifest's root: its tag and the value of its android:name
\* attribute (None without one).
Elem(tag, name) == [tag |-> tag, name |-> name]

UsesPermission(name) == Elem("uses-permission", name)

AbsentManifest == [state |-> "absent", form |-> "none", children |-> << >>]
MalformedManifest == [state |-> "malformed", form |-> "as authored", children |-> << >>]
AuthoredManifest(children) == [state |-> "ok", form |-> "as authored", children |-> children]

\* find_manifest_file: the path if os.path.exists, else None.
find_manifest_file == IF manifest.state = "absent" THEN None ELSE "AndroidManifest.xml"

\* {elem.get(name) for elem in root.findall("uses-permission")}
existing_permissions(children) ==
    {children[i].name : i \in {j \in 1..Len(children) : children[j].tag = "uses-permission"}}

\* added_permissions with the membership test dropped.
added_permissions_unchecked(perms, existing) == perms

\* added_permissions: the requested permissions not in the set computed before the
\* loop, in the order of the list.
added_permissions(perms, existing) == SelectSeq(perms, LAMBDA p : p \notin existing)

\* add_permissions that serialises the tree whether or not anything was added.
add_permissions_alwaysWrite(perms) ==
    IF manifest.state # "ok"
    THEN /\ log' = Append(log, [op |-> "add_permissions", err |-> TRUE])
         /\ UNCHANGED manifest
    ELSE LET added == added_permissions(perms, existing_permissions(manifest.children))
             root == manifest.children \o [i \in 1..Len(added) |-> UsesPermission(added[i])]
         IN /\ manifest' = [state |-> "ok", form |-> "ElementTree", children |-> root]
            /\ log' = Append(log, [op |-> "add_permissions", err |-> FALSE,
                                   perms |-> perms, before |-> manifest,
                                   added |-> added, wrote |-> TRUE])

add_permissions(perms) ==
    IF manifest.state # "ok"
    THEN \* ET.parse raises; the except clause prints the error
         /\ log' = Append(log, [op |-> "add_permissions", err |-> TRUE])
         /\ UNCHANGED manifest
    ELSE LET added == added_permissions(perms, existing_permissions(manifest.children))
             root == manifest.children \o [i \in 1..Len(added) |-> UsesPermission(added[i])]
         IN /\ manifest' = IF added # << >>
                           THEN \* tree.write(..., encoding="utf-8", xml_declaration=True)
                                [state |-> "ok", form |-> "ElementTree", children |-> root]
                           ELSE manifest
            /\ log' = Append(log, [op |-> "add_permissions", err |-> FALSE,
                                   perms |-> perms, before |-> manifest,
                                   added |-> added, wrote |-> added # << >>])

\* str.strip()
StripInput(s) == CASE s = " Yes " -> "Yes" [] s = " 4" -> "4" [] OTHER -> s

\* str.lower()
Lower(s) == CASE s = "Yes" -> "yes" [] OTHER -> s

\* input(...).strip().lower() in ("yes", "y")
Confirmed(s) == Lower(StripInput(s)) \in {"yes", "y"}

\* The tier main selects for a menu choice, or None.
SelectedTier(category_choice) ==
    CASE category_choice = "1" -> "basic"
      [] category_choice = "2" -> "beginner"
      [] category_choice = "3" -> "intermediate"
      [] category_choice = "4" -> "advanced"
      [] OTHER -> None

\* main(app_folder), given what the operator types at its two prompts.
main(choice_typed, confirm_typed) ==
    LET tier == SelectedTier(StripInput(choice_typed))
    IN IF tier = None
       THEN \* "Invalid choice! Exiting..."
            /\ log' = Append(log, [op |-> "main", exit |-> "invalid choice"])
            /\ UNCHANGED manifest
       ELSE IF find_manifest_file = None
       THEN /\ log' = Append(log, [op |-> "main", exit |-> "manifest not found"])
            /\ UNCHANGED manifest
       ELSE IF ~Confirmed(confirm_typed)
       THEN /\ log' = Append(log, [op |-> "main", exit |-> "skipped"])
            /\ UNCHANGED manifest
       ELSE add_permissions(permissions[tier])

----------------------------------------------------------------------------
(* create_folders, create_readme, add_readmes *)

\* A package identifier is the sequence of its labels: "com.app" is <<"com", "app">>
\* and "com..app" is <<"com", "", "app">>.  package_name.replace(".", "/") puts a "/"
\* where each "." was, and the file system reads "a//b" as "a/b": the directory
\* named is the sequence of the non-empty labels.
package_path(package_name) == SelectSeq(package_name, LAMBDA label : label # "")

\* The eleven folders of the list, below app/src/main/java/<package_path>.
Layout == << << >>,
             << "domain" >>, << "domain", "models" >>, << "domain", "usecases" >>,
             << "data" >>, << "data", "repository" >>, << "data", "local" >>,
             << "data", "remote" >>,
             << "presentation" >>, << "presentation", "ui" >>,
             << "presentation", "viewmodels" >> >>

folders(package_name) == [k \in 1..Len(Layout) |-> package_path(package_name) \o Layout[k]]

IsFile(fs, p) == \E f \in fs : f.path = p

\* The path and every directory above it, below app/src/main/java.
Prefixes(p) == {SubSeq(p, 1, k) : k \in 1..Len(p)}

\* os.makedirs(p, exist_ok=False): it raises also when p is there already.
makedirs_raises_noExistOk(ds, p) == p \in ds \/ \E q \in Prefixes(p) : IsFile(files, q)

\* Whether os.makedirs(p, exist_ok=True) raises with the directories ds in place:
\* when p, or a directory above it, is a regular file.
makedirs_raises(ds, p) == \E q \in Prefixes(p) : IsFile(files, q)

RECURSIVE CreateFrom(_, _, _)
\* The loop of create_folders from folder k on, with the directories ds in place:
\* the first makedirs that raises ends the loop (the try encloses the loop).
CreateFrom(fl, k, ds) ==
    IF k > Len(fl) THEN [dirs |-> ds, err |-> FALSE, attempted |-> Len(fl)]
    ELSE IF makedirs_raises(ds, fl[k]) THEN [dirs |-> ds, err |-> TRUE, attempted |-> k]
    ELSE CreateFrom(fl, k + 1, ds \cup Prefixes(fl[k]))

create_folders(package_name) ==
    LET r == CreateFrom(folders(package_name), 1, dirs)
    IN /\ dirs' = r.dirs
       /\ log' = Append(log, [op |-> "create_folders", package |-> package_name,
                              err |-> r.err, attempted |-> r.attempted,
                              dirs_before |-> dirs, dirs_after |-> r.dirs,
                              files_before |-> files])
       /\ UNCHANGED files

\* readme_contents, in the order of the dict.
Layers == << "domain", "data", "presentation" >>

ReadmePath(package_name, layer) == package_path(package_name) \o << layer, "README.md" >>

\* open(readme_path, "w") raises when the folder is no directory or README.md is one.
ReadmeRaises(package_name, layer) ==
    \/ package_path(package_name) \o << layer >> \notin dirs
    \/ ReadmePath(package_name, layer) \in dirs

\* The layers create_readme is called for when the first failure ends the loop.
ReadmeAttempts_stopAtFailure(package_name) ==
    LET failing == {k \in 1..Len(Layers) : ReadmeRaises(package_name, Layers[k])}
    IN IF failing = {} THEN Layers
       ELSE SubSeq(Layers, 1, CHOOSE k \in failing : \A j \in failing : k <= j)

\* The layers create_readme is called for: each call catches its own exception.
ReadmeAttempts(package_name) == Layers

add_readmes(package_name) ==
    LET tried == ReadmeAttempts(package_name)
        ok == {i \in 1..Len(tried) : ~ReadmeRaises(package_name, tried[i])}
        written == {[path |-> ReadmePath(package_name, tried[i]), content |-> tried[i]] : i \in ok}
    IN /\ files' = {f \in files : \A w \in written : w.path # f.path} \cup written
       /\ log' = Append(log, [op |-> "add_readmes", package |-> package_name,
                              attempted |-> tried, dirs_before |-> dirs,
                              failed |-> {tried[i] : i \in (1..Len(tried)) \ ok}])
       /\ UNCHANGED dirs

----------------------------------------------------------------------------
(* find_build_gradle, extract_application_id *)

KtsPath == "app/build.gradle.kts"
GroovyPath == "app/build.gradle"
NestedPath == "app/mod/build.gradle.kts"
GradlePaths == {KtsPath, GroovyPath, NestedPath}

\* The directory os.walk lists a path in: app itself is listed before app/mod.
WalkRank(p) == IF p = NestedPath THEN 2 ELSE 1

\* find_build_gradle: the first file met by os.walk named build.gradle or
\* build.gradle.kts.  The order of the names within a directory is the file
\* system's, so either of two in one directory may be the one returned.
find_build_gradle ==
    LET found == {p \in GradlePaths : gradle[p] # NoFile}
    IN IF found = {} THEN {None}
       ELSE {p \in found : \A q \in found : WalkRank(p) <= WalkRank(q)}

\* The texts matching  applicationId\s*=\s*"([^"]+)"  and the identifier each quotes.
AppIdSymbols == {"appid:com", "appid:com..domain"}

QuotedId(sym) == CASE sym = "appid:com" -> << "com" >>
                   [] sym = "appid:com..domain" -> << "com", "", "domain" >>

NoId == [kind |-> "none", labels |-> << >>]

\* The string "applicationId not found".
NotFoundSentinel == [kind |-> "sentinel", labels |-> << "applicationId not found" >>]

\* The folders the operator may type at the first prompt.
AppFolders == {"/home/dev/proj", "/home/not found/proj"}

FolderParts(folder) == CASE folder = "/home/dev/proj" -> << "home", "dev", "proj" >>
                         [] folder = "/home/not found/proj" -> << "home", "not found", "proj" >>

PathParts(path) == CASE path = KtsPath -> << "app", "build", "gradle", "kts'" >>
                     [] path = GroovyPath -> << "app", "build", "gradle'" >>
                     [] path = NestedPath -> << "app", "mod", "build", "gradle", "kts'" >>

\* The string f"Error reading gradle file: {e}", cut at its "." and "/": the message
\* of the OSError names the path, which starts with the folder the operator typed.
ErrorString(folder, path) ==
    [kind |-> "error",
     labels |-> << "Error reading gradle file: [Errno 13] Permission denied: '" >>
                \o FolderParts(folder) \o PathParts(path)]

extract_application_id(path) ==
    IF path \in unreadable THEN ErrorString(app_folder, path)
    ELSE LET content == Translate(gradle[path])
             hits == {i \in 1..Len(content) : content[i] \in AppIdSymbols}
         IN IF hits = {} THEN NotFoundSentinel
            ELSE [kind |-> "id",
                  labels |-> QuotedId(content[CHOOSE i \in hits : \A j \in hits : i <= j])]

\* The pieces of text that hold the words "not found".
HoldsNotFound == {"applicationId not found", "not found"}

\* "not found" in application_id
ContainsNotFound(id) == \E i \in 1..Len(id.labels) : id.labels[i] \in HoldsNotFound

\* The test of __main__: application_id and "not found" not in application_id
Accepted(id) == id.labels # << >> /\ ~ContainsNotFound(id)

\* The package identifier the scaffold is given: the string, whatever it is.
PackageOf(id) == id.labels

----------------------------------------------------------------------------
(* Specification of the dependency injector alone *)

FileSymbols == {"D", "x", "}", "sp", "CR", "LF"}

SeqsUpTo(S, n) == UNION {[1..k -> S] : k \in 0..n}

RECURSIVE SubsetsUpTo(_, _)
\* The subsets of S of at most n elements.
SubsetsUpTo(S, n) ==
    IF n = 0 THEN {{}}
    ELSE LET smaller == SubsetsUpTo(S, n - 1)
         IN smaller \cup {t \cup {e} : t \in smaller, e \in S}

NoGradle == [p \in GradlePaths |-> NoFile]

InitDeps ==
    /\ platform \in {"posix", "nt"}
    /\ \E content \in SeqsUpTo(FileSymbols, MaxFileLen) :
          gradle = [NoGradle EXCEPT ![KtsPath] = content]
    /\ unreadable = {}
    /\ dirs = {}
    /\ files = {}
    /\ manifest = AbsentManifest
    /\ pc = "deps"
    /\ app_folder = "/home/dev/proj"
    /\ gradle_file = KtsPath
    /\ application_id = NoId
    /\ log = << >>

RunDeps ==
    /\ pc = "deps"
    /\ \E ans \in AnswersFor(KtsPath, AnswerMasks) : add_dependencies_method_1(KtsPath, ans)
    /\ pc' = "done"
    /\ UNCHANGED << platform, unreadable, dirs, files, manifest, app_folder,
                    gradle_file, application_id >>

NextDeps == RunDeps

SpecDeps == InitDeps /\ [][NextDeps]_vars

----------------------------------------------------------------------------
(* Specification of the manifest permission editor alone *)

\* The children a manifest's root may have: the four permissions of the basic tier,
\* a uses-permission without android:name, and an element of another tag.
ManifestElems ==
    {UsesPermission(Basic[i]) : i \in 1..Len(Basic)}
        \cup {UsesPermission(None), Elem("application", None)}

ChoiceInputs == {"1", "2", "3", "4", " 4", "5", ""}
ConfirmInputs == {"y", " Yes ", "no", ""}

InitPerm ==
    /\ platform = "posix"
    /\ gradle = NoGradle
    /\ unreadable = {}
    /\ dirs = {}
    /\ files = {}
    /\ manifest \in {AbsentManifest, MalformedManifest}
                      \cup {AuthoredManifest(c) : c \in SeqsUpTo(ManifestElems, MaxChildren)}
    /\ pc = "manifest"
    /\ app_folder = "/home/dev/proj"
    /\ gradle_file = None
    /\ application_id = NoId
    /\ log = << >>

RunMain ==
    /\ pc = "manifest"
    /\ \E choice \in ChoiceInputs, confirm \in ConfirmInputs : main(choice, confirm)
    /\ pc' = "done"
    /\ UNCHANGED << platform, gradle, unreadable, dirs, files, app_folder,
                    gradle_file, application_id >>

NextPerm == RunMain

SpecPerm == InitPerm /\ [][NextPerm]_vars

----------------------------------------------------------------------------
(* Specification of the scaffold alone: create_folders and add_readmes, run in   *)
(* any order on a tree that may hold something in the way                        *)

Packages == {<< "com" >>, << "com", "", "domain" >>}

\* Where a regular file may be in the way of a folder of the list.
FileObstacles == UNION {{folders(p)[k] : k \in 1..Len(Layout)} : p \in Packages}

\* Where a directory may be in the way of a README.md.
DirObstacles == {ReadmePath(p, Layers[i]) : p \in Packages, i \in 1..Len(Layers)}

ProperPrefixes(p) == Prefixes(p) \ {p}

\* A tree holds the obstacles obs when nothing lies below a regular file.
Consistent(obs) ==
    \A p \in obs, q \in obs : (q \in FileObstacles /\ q \notin DirObstacles) => q \notin ProperPrefixes(p)

InitTree(obs) ==
    /\ files = {[path |-> p, content |-> "in the way"] : p \in obs \cap FileObstacles}
    /\ dirs = (obs \cap DirObstacles) \cup UNION {ProperPrefixes(p) : p \in obs}

InitScaffold ==
    /\ platform = "posix"
    /\ gradle = NoGradle
    /\ unreadable = {}
    /\ \E obs \in SubsetsUpTo(FileObstacles \cup DirObstacles, MaxBlockers) :
          Consistent(obs) /\ InitTree(obs)
    /\ manifest = AbsentManifest
    /\ pc = "scaffold"
    /\ app_folder = "/home/dev/proj"
    /\ gradle_file = None
    /\ application_id = NoId
    /\ log = << >>

RunCreateFolders ==
    /\ Len(log) < MaxOps
    /\ \E p \in Packages : create_folders(p)
    /\ UNCHANGED << platform, gradle, unreadable, manifest, pc, app_folder,
                    gradle_file, application_id >>

RunAddReadmes ==
    /\ Len(log) < MaxOps
    /\ \E p \in Packages : add_readmes(p)
    /\ UNCHANGED << platform, gradle, unreadable, manifest, pc, app_folder,
                    gradle_file, application_id >>

NextScaffold == RunCreateFolders \/ RunAddReadmes

SpecScaffold == InitScaffold /\ [][NextScaffold]_vars


----------------------------------------------------------------------------
(* The top-level script (__main__): one action per call it makes *)

\* os.path.join(app_folder, "app", "build.gradle.kts")
build_gradle_file == KtsPath

\* Gradle files a project may hold: with an applicationId and a dependencies block,
\* and (at app/build.gradle.kts) without an applicationId and with "\r\n" line ends.
WithAppId(sym) == << sym, "LF", "D", "LF", "}", "LF" >>
WithoutAppId == << "x", "CR", "LF", "D", "CR", "LF", "}" >>

\* In the whole script the operator answers every snippet of a block alike.
FlowMasks == {{}, 1..NumDeps}

InitFlow ==
    /\ platform = "posix"
    /\ \E k \in {NoFile, WithAppId("appid:com"), WithoutAppId},
          g \in {NoFile, WithAppId("appid:com..domain")},
          n \in {NoFile, WithAppId("appid:com")} :
          gradle = [p \in GradlePaths |->
                       IF p = KtsPath THEN k ELSE IF p = GroovyPath THEN g ELSE n]
    /\ unreadable \in SUBSET {p \in GradlePaths : gradle[p] # NoFile}
    /\ \E obs \in {{}, {<< "com", "domain" >>}} : InitTree(obs)
    /\ manifest \in {AbsentManifest, MalformedManifest,
                     AuthoredManifest(<< UsesPermission("INTERNET") >>)}
    /\ pc = "start"
    /\ app_folder \in AppFolders
    /\ gradle_file = None
    /\ application_id = NoId
    /\ log = << >>

\* gradle_file = find_build_gradle(app_folder)
Locate ==
    /\ pc = "start"
    /\ \E found \in find_build_gradle :
          /\ gradle_file' = found
          /\ pc' = IF found = None THEN "done" ELSE "extract"
          /\ log' = Append(log, [op |-> "find_build_gradle", found |-> found])
    /\ UNCHANGED << platform, gradle, unreadable, dirs, files, manifest, app_folder,
                    application_id >>

\* application_id = extract_application_id(gradle_file), and the test on it
Extract ==
    /\ pc = "extract"
    /\ application_id' = extract_application_id(gradle_file)
    /\ pc' = IF Accepted(application_id') THEN "confirm" ELSE "done"
    /\ log' = Append(log, [op |-> "extract_application_id", path |-> gradle_file,
                           result |-> application_id'])
    /\ UNCHANGED << platform, gradle, unreadable, dirs, files, manifest, app_folder,
                    gradle_file >>

\* input("Is the applicationId ... correct? (yes/no): ")
ConfirmId ==
    /\ pc = "confirm"
    /\ \E typed \in ConfirmInputs :
          /\ pc' = IF Confirmed(typed) THEN "scaffold" ELSE "done"
          /\ log' = Append(log, [op |-> "confirm", offered |-> application_id,
                                 yes |-> Confirmed(typed)])
    /\ UNCHANGED << platform, gradle, unreadable, dirs, files, manifest, app_folder,
                    gradle_file, application_id >>

StageScaffold ==
    /\ pc = "scaffold"
    /\ create_folders(PackageOf(application_id))
    /\ pc' = "readmes"
    /\ UNCHANGED << platform, gradle, unreadable, manifest, app_folder, gradle_file,
                    application_id >>

StageReadmes ==
    /\ pc = "readmes"
    /\ add_readmes(PackageOf(application_id))
    /\ pc' = "manifest"
    /\ UNCHANGED << platform, gradle, unreadable, manifest, app_folder, gradle_file,
                    application_id >>

\* main(app_folder) where a declined or invalid answer ends the script.
StageManifest_abortOnDecline ==
    /\ pc = "manifest"
    /\ \E choice \in ChoiceInputs, confirm \in ConfirmInputs : main(choice, confirm)
    /\ pc' = IF log'[Len(log')].op = "main" THEN "done" ELSE "deps"
    /\ UNCHANGED << platform, gradle, unreadable, dirs, files, app_folder, gradle_file,
                    application_id >>

\* main(app_folder): whatever it does, the script goes on to the dependencies.
StageManifest ==
    /\ pc = "manifest"
    /\ \E choice \in ChoiceInputs, confirm \in ConfirmInputs : main(choice, confirm)
    /\ pc' = "deps"
    /\ UNCHANGED << platform, gradle, unreadable, dirs, files, app_folder, gradle_file,
                    application_id >>

StageDeps ==
    /\ pc = "deps"
    /\ \E ans \in AnswersFor(build_gradle_file, FlowMasks) :
          add_dependencies_method_1(build_gradle_file, ans)
    /\ pc' = "done"
    /\ UNCHANGED << platform, unreadable, dirs, files, manifest, app_folder,
                    gradle_file, application_id >>

NextFlow ==
    \/ Locate
    \/ Extract
    \/ ConfirmId
    \/ StageScaffold
    \/ StageReadmes
    \/ StageManifest
    \/ StageDeps

SpecFlow == InitFlow /\ [][NextFlow]_vars

----------------------------------------------------------------------------
(* Claims about add_dependencies_method_1 (SpecDeps) *)

DepsRan == pc = "done" /\ log # << >> /\ Last.op = "add_dependencies_method_1" /\ ~Last.err

DepBodies == {dependencies[i][1] : i \in 1..NumDeps}

\* What file.write(f"{dep}\n") puts on disk for snippet i.
SnippetBytes(i) == Encode(dependencies[i] \o << "LF" >>, platform)

RECURSIVE RemoveInserted(_)
\* The bytes with every written snippet (its body, its own line end and the line end
\* the write adds) taken out.
RemoveInserted(b) ==
    IF b = << >> THEN << >>
    ELSE IF Head(b) \in DepBodies
         THEN LET n == Len(SnippetBytes(1))
              IN RemoveInserted(SubSeq(b, n + 1, Len(b)))
         ELSE << Head(b) >> \o RemoveInserted(Tail(b))

AllDeclined(ans) == \A r \in DOMAIN ans : ans[r] = {}
AllAccepted(ans) == \A r \in DOMAIN ans : ans[r] = 1..NumDeps

\* C1: the original lines all appear in the output unchanged and in order, the only
\* added text is accepted snippets, and with every prompt declined the output file
\* is byte-identical to the input file.
C1_OriginalBytesPreserved ==
    DepsRan =>
        /\ RemoveInserted(gradle[Last.path]) = Last.before
        /\ AllDeclined(Last.ans) => gradle[Last.path] = Last.before

RECURSIVE RawLines(_)
\* The bytes cut into lines, each with the line end it has on disk.
RawLines(b) ==
    IF b = << >> THEN << >>
    ELSE LET ends == {i \in 1..Len(b) :
                         \/ b[i] = "LF"
                         \/ b[i] = "CR" /\ ~(i < Len(b) /\ b[i + 1] = "LF")}
             n == IF ends = {} THEN Len(b)
                  ELSE CHOOSE i \in ends : \A j \in ends : i <= j
         IN << SubSeq(b, 1, n) >> \o RawLines(SubSeq(b, n + 1, Len(b)))

RECURSIVE TenSnippets(_)
TenSnippets(i) == IF i > NumDeps THEN << >> ELSE SnippetBytes(i) \o TenSnippets(i + 1)

RECURSIVE WithTenAfterEachOpen(_)
WithTenAfterEachOpen(raw) ==
    IF raw = << >> THEN << >>
    ELSE Head(raw) \o (IF Strip(Head(raw)) = DepOpen THEN TenSnippets(1) ELSE << >>)
         \o WithTenAfterEachOpen(Tail(raw))

\* C3: with a `dependencies {` line and every prompt accepted, the ten snippets
\* follow the `dependencies {` line in list order, before the next original line,
\* and every other line is preserved verbatim and in order.
C3_TenSnippetsAfterOpenVerbatim ==
    (DepsRan /\ NumBlocks(Last.lines) >= 1 /\ AllAccepted(Last.ans)) =>
        gradle[Last.path] = WithTenAfterEachOpen(RawLines(Last.before))

RECURSIVE Flat(_)
\* The lines joined.
Flat(ls) == IF ls = << >> THEN << >> ELSE Head(ls) \o Flat(Tail(ls))

OpenLines(lines) == {k \in 1..Len(lines) : Strip(lines[k]) = DepOpen}

FirstOpen(lines) == CHOOSE k \in OpenLines(lines) : \A j \in OpenLines(lines) : k <= j

\* C2 as stated: in a file with two or more `dependencies {` lines the operator is
\* prompted for the ten snippets exactly once, and nothing is written after the
\* second or any later such line: the text after the first block's insertion is the
\* rest of the input.
C2_OnlyFirstOpenPrompts ==
    (DepsRan /\ NumBlocks(Last.lines) >= 2) =>
        LET lines == Last.lines
            written == Last.written
            pre == Flat(SubSeq(lines, 1, FirstOpen(lines)))
            suf == Flat(SubSeq(lines, FirstOpen(lines) + 1, Len(lines)))
        IN /\ Last.asked = NumDeps
           /\ Len(written) >= Len(pre) + Len(suf)
           /\ SubSeq(written, 1, Len(pre)) = pre
           /\ SubSeq(written, Len(written) - Len(suf) + 1, Len(written)) = suf

\* The snippets accepted in one block, as written: each followed by one more "\n".
AcceptedText(mask) ==
    LET RECURSIVE From(_)
        From(i) == IF i > NumDeps THEN << >>
                   ELSE (IF i \in mask THEN dependencies[i] \o << "LF" >> ELSE << >>)
                        \o From(i + 1)
    IN From(1)

\* C2 as amended: every line whose trimmed content is `dependencies {` prompts for
\* the ten snippets: a file with k such lines makes 10 * k prompts, and the snippets
\* accepted at the r-th such line are written directly after that line.
C2_EveryOpenPrompts ==
    DepsRan =>
        LET lines == Last.lines
            round(k) == Cardinality({j \in OpenLines(lines) : j <= k})
            piece(k) == lines[k] \o (IF k \in OpenLines(lines)
                                     THEN AcceptedText(Last.ans[round(k)]) ELSE << >>)
        IN /\ Last.asked = NumDeps * NumBlocks(lines)
           /\ Last.written = Flat([k \in 1..Len(lines) |-> piece(k)])

C2_Witness ==
    /\ DepsRan
    /\ NumBlocks(Last.lines) >= 2
    /\ Last.ans[2] # {}
    /\ Last.ans[1] # Last.ans[2]

----------------------------------------------------------------------------
(* Claims about add_permissions (SpecPerm) *)

PermRan == pc = "done" /\ log # << >> /\ Last.op = "add_permissions" /\ ~Last.err

AllPermissionNames == {Advanced[i] : i \in 1..Len(Advanced)}

\* The number of root-level uses-permission elements carrying the name.
Count(children, name) ==
    Cardinality({i \in 1..Len(children) :
                    children[i].tag = "uses-permission" /\ children[i].name = name})

\* C4: add_permissions never introduces a duplicate: a name carried by one or more
\* uses-permission elements before the edit is carried by as many after it
\* (duplicates stay), and any other name by at most one.
C4_NoDuplicateIntroduced ==
    PermRan =>
        \A n \in AllPermissionNames :
            LET pre == Count(Last.before.children, n)
                post == Count(manifest.children, n)
            IN IF pre >= 1 THEN post = pre ELSE post <= 1

C4_Witness ==
    /\ PermRan
    /\ \E n \in AllPermissionNames : Count(Last.before.children, n) >= 2
    /\ \E n \in AllPermissionNames :
          Count(Last.before.children, n) = 0 /\ Count(manifest.children, n) = 1

\* The names the root's uses-permission children declare.
Declared(children) ==
    {n \in AllPermissionNames : Count(children, n) >= 1}

\* C5: after add_permissions the root's children are the children before the edit
\* followed by the tier's permissions not declared before, in tier order (4 for
\* basic with none declared, 3 with only INTERNET declared); with all of them
\* declared the file is not written.
C5_AppendsMissingInTierOrder ==
    PermRan =>
        LET before == Last.before.children
            missing == SelectSeq(Last.perms, LAMBDA q : q \notin Declared(before))
            basicDeclared == Declared(before) \cap {Basic[i] : i \in 1..Len(Basic)}
        IN /\ manifest.children = before \o [i \in 1..Len(missing) |-> UsesPermission(missing[i])]
           /\ (Last.perms = Basic /\ basicDeclared = {}) =>
                  Len(manifest.children) = Len(before) + 4
           /\ (Last.perms = Basic /\ basicDeclared = {"INTERNET"}) =>
                  Len(manifest.children) = Len(before) + 3
           /\ missing = << >> => (manifest = Last.before /\ ~Last.wrote)
           /\ missing # << >> => (Last.wrote /\ manifest.form = "ElementTree")

C5_Witness ==
    /\ PermRan
    /\ Last.perms = Basic
    /\ Declared(Last.before.children) = {Basic[i] : i \in 1..Len(Basic)}
    /\ manifest = Last.before

----------------------------------------------------------------------------
(* Claims about the scaffold (SpecScaffold) *)

IsCreate(i) == log[i].op = "create_folders"
IsReadmes(i) == log[i].op = "add_readmes"

Eleven(package_name) == {folders(package_name)[k] : k \in 1..Len(Layout)}

\* C6: create_folders is idempotent: run again for a package it has created
\* successfully, it reports no error and leaves the same directories, the eleven
\* of the package among them.
C6_CreateFoldersIdempotent ==
    \A i \in DOMAIN log : \A j \in DOMAIN log :
        (i < j /\ IsCreate(i) /\ ~log[i].err /\ IsCreate(j) /\ log[j].package = log[i].package)
            => /\ ~log[j].err
               /\ log[j].dirs_after = log[j].dirs_before
               /\ Eleven(log[j].package) \subseteq log[j].dirs_after
               /\ Cardinality(Eleven(log[j].package)) = 11

C6_Witness ==
    \E i \in DOMAIN log :
        /\ i + 1 \in DOMAIN log
        /\ IsCreate(i) /\ ~log[i].err /\ log[i].dirs_after # log[i].dirs_before
        /\ IsCreate(i + 1) /\ log[i + 1].package = log[i].package

\* C7 as stated: every folder creation and every README write is attempted whatever
\* fails: create_folders calls makedirs for all eleven folders and add_readmes
\* calls create_readme for all three layers.
C7_EveryCreationAttempted ==
    \A i \in DOMAIN log :
        /\ IsCreate(i) => log[i].attempted = Len(Layout)
        /\ IsReadmes(i) => log[i].attempted = Layers

\* The folders of the package a regular file stands in the way of, by index.
InTheWay(i) ==
    {k \in 1..Len(Layout) :
        \E q \in Prefixes(folders(log[i].package)[k]) : IsFile(log[i].files_before, q)}

\* C7 as amended: every README write is attempted whichever of them fail, and the
\* ones that fail are those whose folder is missing or whose README.md is a
\* directory; the folder creations run in list order inside one try, so the first
\* that fails is the last attempted, and with no failure all eleven are.
C7_ReadmesIndependentFoldersStopAtFirstFailure ==
    \A i \in DOMAIN log :
        /\ IsReadmes(i) =>
              /\ log[i].attempted = Layers
              /\ log[i].failed =
                    {Layers[k] : k \in {m \in 1..Len(Layers) :
                        \/ package_path(log[i].package) \o << Layers[m] >> \notin log[i].dirs_before
                        \/ ReadmePath(log[i].package, Layers[m]) \in log[i].dirs_before}}
        /\ IsCreate(i) =>
              IF InTheWay(i) = {}
              THEN ~log[i].err /\ log[i].attempted = Len(Layout)
              ELSE /\ log[i].err
                   /\ log[i].attempted \in InTheWay(i)
                   /\ \A k \in InTheWay(i) : log[i].attempted <= k

C7_Witness ==
    \E i \in DOMAIN log :
        /\ IsReadmes(i)
        /\ "domain" \in log[i].failed
        /\ "data" \notin log[i].failed

----------------------------------------------------------------------------
(* Claims about the top-level script (SpecFlow) *)

StageOps == {"create_folders", "add_readmes", "main", "add_permissions",
             "add_dependencies_method_1"}

\* C8 as stated: a "no" at a y/n prompt skips only the current stage: when the
\* operator declines the applicationId, the later stages are still entered.
C8_NoNeverEndsTheRun ==
    pc = "done" =>
        \A i \in DOMAIN log :
            (log[i].op = "confirm" /\ ~log[i].yes) =>
                \E j \in DOMAIN log : j > i /\ log[j].op = "add_dependencies_method_1"

\* C8 as amended: a "no" to the applicationId confirmation ends the run with no
\* stage entered; after a "yes" the scaffold, README, manifest and dependency
\* stages are all entered, in this order, whatever the operator answers in the
\* manifest stage, and a declined snippet does not stop the later prompts.
C8_OnlyIdDeclineEndsTheRun ==
    pc = "done" =>
        \A i \in DOMAIN log :
            /\ (log[i].op = "confirm" /\ ~log[i].yes) => i = Len(log)
            /\ (log[i].op = "confirm" /\ log[i].yes) =>
                  /\ Len(log) = i + 4
                  /\ log[i + 1].op = "create_folders"
                  /\ log[i + 2].op = "add_readmes"
                  /\ log[i + 3].op \in {"main", "add_permissions"}
                  /\ log[i + 4].op = "add_dependencies_method_1"
                  /\ ~log[i + 4].err =>
                        log[i + 4].asked = NumDeps * NumBlocks(log[i + 4].lines)

C8_Witness ==
    /\ pc = "done"
    /\ \E i \in DOMAIN log : log[i].op = "main" /\ log[i].exit = "skipped"
    /\ Last.op = "add_dependencies_method_1"
    /\ ~Last.err
    /\ \E r \in DOMAIN Last.ans : Last.ans[r] = {}

\* C9: the file add_dependencies_method_1 reads and rewrites is the file
\* find_build_gradle returned.
C9_DepsRewriteTheFoundFile ==
    \A i \in DOMAIN log :
        log[i].op = "add_dependencies_method_1" => log[i].path = gradle_file

\* C10: a failure string or the not-found sentinel returned by
\* extract_application_id is never offered for confirmation and never used as the
\* package identifier of a stage.
C10_FailureStringNeverUsed ==
    \A i \in DOMAIN log :
        /\ log[i].op = "confirm" => log[i].offered.kind = "id"
        /\ log[i].op \in StageOps => application_id.kind = "id"

====
